---- MODULE Spec2Model ----
(***************************************************************************)
(* Model of src/module/lambda/app.ts: the Lambda handler that validates a  *)
(* batch of student records (zod), guards against repeated request ids     *)
(* with the module-level Set processedRequests, and answers seven fixed    *)
(* JMESPath queries over the validated batch.                              *)
(*                                                                         *)
(* The handler is an async function without any await: its body runs as    *)
(* one turn of the event loop, so one invocation is one action.            *)
(***************************************************************************)
EXTENDS Integers, Sequences, FiniteSets, TLC

VARIABLES
  processedRequests,  \* the module-level Set<string>
  request,            \* <<>> or <<[event, context]>>: the invocation last handled
  students,           \* validatedData.data.result of that invocation (<<>> if none)
  results,            \* <<>> or <<results>>: the object of the seven query results
  response,           \* <<>> or <<APIGatewayProxyResult>> returned by that invocation
  carried,            \* history: keys carried by the invocations handled so far
  reached,            \* history: keys with which the idempotency check was reached
  evaluated,          \* history: per key, how often the seven queries were evaluated
  completed,          \* history: per key, how often the success body was returned
  processedBatch,     \* history: per key, <<>> or <<the batch the queries were evaluated on>>
  invocations         \* number of invocations handled

vars == <<processedRequests, request, students, results, response,
          carried, reached, evaluated, completed, processedBatch, invocations>>

(***************************************************************************)
(* Bounds of the model.                                                    *)
(***************************************************************************)
MaxInvocations == 3   \* handler invocations in one process lifetime
MaxBatch == 2         \* records in a request body handled by the handler
MaxStudents == 2      \* records in a batch given to the query evaluator

(***************************************************************************)
(* Request identifiers.  "" stands for a falsy requestId (requestContext   *)
(* absent, requestId undefined or empty).                                  *)
(***************************************************************************)
RequestIds == {"", "r1"}
AwsRequestIds == {"a1"}
Keys == (RequestIds \ {""}) \cup AwsRequestIds

(***************************************************************************)
(* JSON values of a request body.  An object is a TLA+ record; a key that  *)
(* the JSON object lacks is a key the record lacks.                        *)
(***************************************************************************)
\* Raw records the handler specification draws request bodies from: a record
\* of the schema, a record with Subject.science out of range, and a record
\* without the key Subject.maths.
RawStudents ==
  { [name |-> "A", Subject |-> [science |-> 90, maths |-> 70, result |-> "pass"], Attendance |-> 40],
    [name |-> "B", Subject |-> [science |-> 101, maths |-> 50, result |-> "fail"], Attendance |-> 90],
    [name |-> "C", Subject |-> [science |-> 100, result |-> "pass"], Attendance |-> 60] }

SeqsUpTo(S, n) == UNION { [1..k -> S] : k \in 0..n }

\* event.body: null, a text that is not JSON, or the JSON text of an object
\* with or without the key "result".
Bodies ==
  { [kind |-> "null"], [kind |-> "notjson"], [kind |-> "json", value |-> [other |-> 0]] }
  \cup { [kind |-> "json", value |-> [result |-> b]] : b \in SeqsUpTo(RawStudents, MaxBatch) }

Events == [body : Bodies, requestId : RequestIds]
Contexts == [awsRequestId : AwsRequestIds]


(***************************************************************************)
(* JSON.parse(event.body || '{}') (line 31).  A null body parses as the    *)
(* empty object; a text that is not JSON makes JSON.parse throw.           *)
(***************************************************************************)
EmptyObject == [k \in {} |-> 0]

jsonParse(body) ==
  CASE body.kind = "null" -> [threw |-> FALSE, value |-> EmptyObject]
    [] body.kind = "notjson" -> [threw |-> TRUE, value |-> EmptyObject]
    [] body.kind = "json" -> [threw |-> FALSE, value |-> body.value]

(***************************************************************************)
(* The zod schemas (lines 9-21).  z.number().min(0).max(100) accepts the   *)
(* numbers 0..100 inclusive; every key of z.object is required.  The       *)
(* parsed output holds exactly the keys of the schema.                     *)
(***************************************************************************)
NumberMin == 0
NumberMax == 100
ResultEnum == {"pass", "fail"}

\* Subject with the .max(100) of science left out.
SubjectSchemaOkNoMax(s) ==
  /\ {"science", "maths", "result"} \subseteq DOMAIN s
  /\ s.science >= NumberMin
  /\ s.maths >= NumberMin /\ s.maths <= NumberMax
  /\ s.result \in ResultEnum

\* Subject with maths declared optional.
SubjectSchemaOkMathsOptional(s) ==
  /\ {"science", "result"} \subseteq DOMAIN s
  /\ s.science >= NumberMin /\ s.science <= NumberMax
  /\ "maths" \in DOMAIN s => (s.maths >= NumberMin /\ s.maths <= NumberMax)
  /\ s.result \in ResultEnum

SubjectSchemaOk(s) ==
  /\ {"science", "maths", "result"} \subseteq DOMAIN s
  /\ s.science >= NumberMin /\ s.science <= NumberMax
  /\ s.maths >= NumberMin /\ s.maths <= NumberMax
  /\ s.result \in ResultEnum

StudentSchemaOk(r) ==
  /\ {"name", "Subject", "Attendance"} \subseteq DOMAIN r
  /\ SubjectSchemaOk(r.Subject)
  /\ r.Attendance >= NumberMin /\ r.Attendance <= NumberMax

\* The output of a z.object keeps the schema's keys the input holds.
StudentSchemaOutput(r) ==
  [name |-> r.name,
   Subject |-> [k \in DOMAIN r.Subject \cap {"science", "maths", "result"} |->
                  r.Subject[k]],
   Attendance |-> r.Attendance]

\* InputSchema.safeParse(body) (line 40).
safeParse(body) ==
  IF /\ "result" \in DOMAIN body
     /\ \A i \in 1..Len(body.result) : StudentSchemaOk(body.result[i])
  THEN [success |-> TRUE,
        data |-> [result |-> [i \in 1..Len(body.result) |->
                                StudentSchemaOutput(body.result[i])]]]
  ELSE [success |-> FALSE, data |-> [result |-> <<>>]]

(***************************************************************************)
(* The seven JMESPath expressions of lines 64-70, as the syntax trees the  *)
(* jmespath parser builds for them: comparators bind tighter than &&,      *)
(* which binds tighter than ||; a backquoted literal is its JSON value,    *)
(* and `pass`, which is no JSON text, is the string "pass".                *)
(***************************************************************************)
Identity == [type |-> "Identity"]
Field(n) == [type |-> "Field", name |-> n]
Subexpression(l, r) == [type |-> "Subexpression", children |-> <<l, r>>]
Literal(v) == [type |-> "Literal", value |-> v]
Comparator(op, l, r) == [type |-> "Comparator", name |-> op, children |-> <<l, r>>]
AndExpression(l, r) == [type |-> "AndExpression", children |-> <<l, r>>]
OrExpression(l, r) == [type |-> "OrExpression", children |-> <<l, r>>]
KeyValuePair(k, v) == [type |-> "KeyValuePair", name |-> k, value |-> v]
MultiSelectHash(kvs) == [type |-> "MultiSelectHash", children |-> kvs]
Projection(l, r) == [type |-> "Projection", children |-> <<l, r>>]
FilterProjection(l, r, c) == [type |-> "FilterProjection", children |-> <<l, r, c>>]

\* '[*].name'
studentNamesExpr == Projection(Identity, Field("name"))

\* '[*].Subject.science'
scienceMarksExpr ==
  Projection(Identity, Subexpression(Field("Subject"), Field("science")))

\* '[?Subject.science >= `80`].name'
scienceAbove80ExprGte ==
  FilterProjection(Identity, Field("name"),
    Comparator("GTE", Subexpression(Field("Subject"), Field("science")), Literal(80)))

\* '[?Subject.science > `80`].name'
scienceAbove80Expr ==
  FilterProjection(Identity, Field("name"),
    Comparator("GT", Subexpression(Field("Subject"), Field("science")), Literal(80)))

\* '[?Subject.result == `pass`].name'
passedStudentsExpr ==
  FilterProjection(Identity, Field("name"),
    Comparator("EQ", Subexpression(Field("Subject"), Field("result")), Literal("pass")))

\* '[?Subject.result == `pass` && Attendance <= `50`].name'
passedLowAttendanceExprLte ==
  FilterProjection(Identity, Field("name"),
    AndExpression(
      Comparator("EQ", Subexpression(Field("Subject"), Field("result")), Literal("pass")),
      Comparator("LTE", Field("Attendance"), Literal(50))))

\* '[?Subject.result == `pass` && Attendance < `50`].name'
passedLowAttendanceExpr ==
  FilterProjection(Identity, Field("name"),
    AndExpression(
      Comparator("EQ", Subexpression(Field("Subject"), Field("result")), Literal("pass")),
      Comparator("LT", Field("Attendance"), Literal(50))))

\* '[?Subject.science == `100` && Subject.maths == `100`].name'
perfectScoreExprAnd ==
  FilterProjection(Identity, Field("name"),
    AndExpression(
      Comparator("EQ", Subexpression(Field("Subject"), Field("science")), Literal(100)),
      Comparator("EQ", Subexpression(Field("Subject"), Field("maths")), Literal(100))))

\* '[?Subject.science == `100` || Subject.maths == `100`].name'
perfectScoreExpr ==
  FilterProjection(Identity, Field("name"),
    OrExpression(
      Comparator("EQ", Subexpression(Field("Subject"), Field("science")), Literal(100)),
      Comparator("EQ", Subexpression(Field("Subject"), Field("maths")), Literal(100))))

\* '[*].{Name: name, Result: Subject.result}'
nameAndResultExpr ==
  Projection(Identity,
    MultiSelectHash(<<KeyValuePair("Name", Field("name")),
                      KeyValuePair("Result", Subexpression(Field("Subject"), Field("result")))>>))

(***************************************************************************)
(* jmespath.search(data, expression): the tree interpreter.  A value of    *)
(* the interpreter is <<>> for null and <<v>> for any other value v.  A    *)
(* field access on an object lacking the key is null.  A projection maps   *)
(* its right-hand side over every element of the array in order and drops  *)
(* the null results; a filter projection does so over the elements whose   *)
(* condition is not false (null or false), in order.  The comparators are  *)
(* JavaScript's: == is strict equality, < and > convert null to 0.         *)
(***************************************************************************)
Null == [type |-> "null"]
toNumber(w) == IF Len(w) = 0 THEN 0 ELSE w[1]
isFalse(w) == Len(w) = 0 \/ w[1] = FALSE
unwrap(w) == IF Len(w) = 0 THEN Null ELSE w[1]

RECURSIVE visit(_, _)
RECURSIVE collected(_, _, _)
RECURSIVE collectedReversed(_, _, _)
RECURSIVE filtered(_, _, _)

\* The elements base[i..] whose condition is not false, in order.
filtered(base, condition, i) ==
  IF i > Len(base) THEN <<>>
  ELSE IF ~isFalse(visit(condition, <<base[i]>>))
       THEN <<base[i]>> \o filtered(base, condition, i + 1)
       ELSE filtered(base, condition, i + 1)

\* The results collected by prepending instead of appending.
collectedReversed(base, right, i) ==
  IF i > Len(base) THEN <<>>
  ELSE collectedReversed(base, right, i + 1) \o visit(right, <<base[i]>>)

\* The non-null results of the right-hand side over base[i..], in order.
collected(base, right, i) ==
  IF i > Len(base) THEN <<>>
  ELSE visit(right, <<base[i]>>) \o collected(base, right, i + 1)

visit(node, value) ==
  CASE node.type = "Identity" -> value
    [] node.type = "Field" ->
         IF Len(value) = 1 /\ node.name \in DOMAIN value[1]
         THEN <<value[1][node.name]>> ELSE <<>>
    [] node.type = "Subexpression" ->
         visit(node.children[2], visit(node.children[1], value))
    [] node.type = "Literal" -> <<node.value>>
    [] node.type = "Comparator" ->
         LET first == visit(node.children[1], value)
             second == visit(node.children[2], value)
         IN (CASE node.name = "EQ" -> <<first = second>>
              [] node.name = "NE" -> <<first # second>>
              [] node.name = "GT" -> <<toNumber(first) > toNumber(second)>>
              [] node.name = "GTE" -> <<toNumber(first) >= toNumber(second)>>
              [] node.name = "LT" -> <<toNumber(first) < toNumber(second)>>
              [] node.name = "LTE" -> <<toNumber(first) <= toNumber(second)>>)
    [] node.type = "AndExpression" ->
         LET left == visit(node.children[1], value)
         IN IF isFalse(left) THEN left ELSE visit(node.children[2], value)
    [] node.type = "OrExpression" ->
         LET matched == visit(node.children[1], value)
         IN IF isFalse(matched) THEN visit(node.children[2], value) ELSE matched
    [] node.type = "MultiSelectHash" ->
         IF Len(value) = 0 THEN <<>>
         ELSE <<[k \in {node.children[j].name : j \in 1..Len(node.children)} |->
                  LET child == CHOOSE j \in 1..Len(node.children) :
                                 node.children[j].name = k
                  IN unwrap(visit(node.children[child].value, value))]>>
    [] node.type = "Projection" ->
         LET base == visit(node.children[1], value)
         IN IF Len(base) = 0 THEN <<>>
            ELSE <<collected(base[1], node.children[2], 1)>>
    [] node.type = "FilterProjection" ->
         LET base == visit(node.children[1], value)
         IN IF Len(base) = 0 THEN <<>>
            ELSE <<collected(filtered(base[1], node.children[3], 1),
                             node.children[2], 1)>>

search(data, expression) == unwrap(visit(expression, <<data>>))

\* The results object of lines 63-71.
queryResults(batch) ==
  [studentNames |-> search(batch, studentNamesExpr),
   scienceMarks |-> search(batch, scienceMarksExpr),
   scienceAbove80 |-> search(batch, scienceAbove80Expr),
   passedStudents |-> search(batch, passedStudentsExpr),
   passedLowAttendance |-> search(batch, passedLowAttendanceExpr),
   perfectScore |-> search(batch, perfectScoreExpr),
   nameAndResult |-> search(batch, nameAndResultExpr)]

\* An evaluation that throws (a query expression that does not parse).
evaluateQueriesThrows(batch) == [threw |-> TRUE, value |-> <<>>]

\* Lines 63-71 inside the try block: the evaluation returns the results
\* object; none of the seven searches throws.
evaluateQueries(batch) == [threw |-> FALSE, value |-> <<queryResults(batch)>>]

(***************************************************************************)
(* The idempotency guard (lines 52-60).                                    *)
(***************************************************************************)
\* event.requestContext?.requestId || context.awsRequestId
idempotencyKey(event, context) ==
  IF event.requestId # "" THEN event.requestId ELSE context.awsRequestId

\* The check left out.
hasNever(set, key) == FALSE
\* processedRequests.has(idempotencyKey) (line 53)
has(set, key) == key \in set

\* The mark left out.
addNothing(set, key) == set
\* processedRequests.add(idempotencyKey) (line 60)
add(set, key) == set \cup {key}

(***************************************************************************)
(* The responses (lines 34-37, 43-46, 55-58, 74-77, 80-83).  The body is   *)
(* the object given to JSON.stringify.                                     *)
(***************************************************************************)
invalidJsonResponse == [statusCode |-> 400, body |-> [error |-> "Invalid JSON input"]]
invalidInputResponse ==
  [statusCode |-> 400, body |-> [error |-> "Invalid input", details |-> "ZodError"]]
alreadyProcessedResponse ==
  [statusCode |-> 200, body |-> [message |-> "Request already processed"]]
successResponse(res) == [statusCode |-> 200, body |-> res]
internalErrorResponse == [statusCode |-> 500, body |-> [error |-> "Internal server error"]]

(***************************************************************************)
(* The handler (lines 24-85): what one invocation returns and what it      *)
(* leaves in processedRequests, given the set it finds.                    *)
(* The key is added (line 60) before the queries run (lines 63-71); the    *)
(* catch clause (lines 78-84) answers 500 and removes nothing from the     *)
(* set.                                                                    *)
(***************************************************************************)
handlerOutcome(event, context, processed) ==
  LET parsed == jsonParse(event.body)
      validatedData == safeParse(parsed.value)
      batch == validatedData.data.result
      key == idempotencyKey(event, context)
      marked == add(processed, key)
      evaluation == evaluateQueries(batch)
      none == [students |-> <<>>, results |-> <<>>, checked |-> FALSE, ran |-> FALSE]
  IN IF parsed.threw
     THEN [response |-> invalidJsonResponse, processedRequests |-> processed] @@ none
     ELSE IF ~validatedData.success
     THEN [response |-> invalidInputResponse, processedRequests |-> processed] @@ none
     ELSE IF has(processed, key)
     THEN [response |-> alreadyProcessedResponse, processedRequests |-> processed,
           students |-> batch, results |-> <<>>, checked |-> TRUE, ran |-> FALSE]
     ELSE IF evaluation.threw
     THEN [response |-> internalErrorResponse, processedRequests |-> marked,
           students |-> batch, results |-> <<>>, checked |-> TRUE, ran |-> TRUE]
     ELSE [response |-> successResponse(evaluation.value[1]),
           processedRequests |-> marked,
           students |-> batch, results |-> evaluation.value, checked |-> TRUE,
           ran |-> TRUE]

(***************************************************************************)
(* The process: processedRequests starts empty (line 6); every invocation  *)
(* of the handler is one step.                                             *)
(***************************************************************************)
Init ==
  /\ processedRequests = {}
  /\ request = <<>>
  /\ students = <<>>
  /\ results = <<>>
  /\ response = <<>>
  /\ carried = {}
  /\ reached = {}
  /\ evaluated = [k \in Keys |-> 0]
  /\ completed = [k \in Keys |-> 0]
  /\ processedBatch = [k \in Keys |-> <<>>]
  /\ invocations = 0

Handler ==
  /\ invocations < MaxInvocations
  /\ \E event \in Events, context \in Contexts :
       \E o \in {handlerOutcome(event, context, processedRequests)},
          key \in {idempotencyKey(event, context)} :
          /\ processedRequests' = o.processedRequests
          /\ request' = <<[event |-> event, context |-> context]>>
          /\ students' = o.students
          /\ results' = o.results
          /\ response' = <<o.response>>
          /\ carried' = carried \cup {key}
          /\ reached' = IF o.checked THEN reached \cup {key} ELSE reached
          /\ evaluated' = IF o.ran THEN [evaluated EXCEPT ![key] = @ + 1]
                          ELSE evaluated
          /\ completed' = IF o.results # <<>> THEN [completed EXCEPT ![key] = @ + 1]
                          ELSE completed
          /\ processedBatch' = IF o.ran THEN [processedBatch EXCEPT ![key] = <<o.students>>]
                               ELSE processedBatch
          /\ invocations' = invocations + 1

Next == Handler

Spec == Init /\ [][Next]_vars

(***************************************************************************)
(* The query evaluation alone (lines 63-71), over every validated batch    *)
(* of up to MaxStudents records drawn from the values around the           *)
(* thresholds of the queries.                                              *)
(***************************************************************************)
SearchStudents ==
  [name : {"A", "B"},
   Subject : [science : {80, 81, 100}, maths : {50, 100}, result : ResultEnum],
   Attendance : {49, 50}]

ValidatedBatches ==
  { safeParse([result |-> b]).data.result : b \in SeqsUpTo(SearchStudents, MaxStudents) }

InitSearch ==
  /\ processedRequests = {}
  /\ request = <<>>
  /\ students \in ValidatedBatches
  /\ results = <<>>
  /\ response = <<>>
  /\ carried = {}
  /\ reached = {}
  /\ evaluated = [k \in Keys |-> 0]
  /\ completed = [k \in Keys |-> 0]
  /\ processedBatch = [k \in Keys |-> <<>>]
  /\ invocations = 0

Evaluate ==
  /\ results = <<>>
  /\ results' = evaluateQueries(students).value
  /\ UNCHANGED <<processedRequests, request, students, response,
                 carried, reached, evaluated, completed, processedBatch, invocations>>

NextSearch == Evaluate

SpecSearch == InitSearch /\ [][NextSearch]_vars

(***************************************************************************)
(* Vocabulary of the properties, stated on the requests and responses      *)
(* themselves.                                                             *)
(***************************************************************************)
\* The records of the documented shape: every field present and in range.
WellFormedStudents ==
  [name : {"A", "B", "C"},
   Subject : [science : 0..100, maths : 0..100, result : {"pass", "fail"}],
   Attendance : 0..100]

HasBatch(req) ==
  req.event.body.kind = "json" /\ "result" \in DOMAIN req.event.body.value

BatchOf(req) == req.event.body.value.result

\* The request's body parses and satisfies InputSchema.
WellFormed(req) ==
  /\ HasBatch(req)
  /\ \A i \in 1..Len(BatchOf(req)) : BatchOf(req)[i] \in WellFormedStudents

\* The request's batch holds a record without Subject.maths.
LacksMaths(req) ==
  /\ HasBatch(req)
  /\ \E i \in 1..Len(BatchOf(req)) : "maths" \notin DOMAIN BatchOf(req)[i].Subject

KeyOf(req) ==
  IF req.event.requestId # "" THEN req.event.requestId ELSE req.context.awsRequestId

QueryNames ==
  {"studentNames", "scienceMarks", "scienceAbove80", "passedStudents",
   "passedLowAttendance", "perfectScore", "nameAndResult"}

IsAcknowledgment(r) ==
  r.statusCode = 200 /\ r.body = [message |-> "Request already processed"]

IsSuccess(r) == r.statusCode = 200 /\ DOMAIN r.body = QueryNames

\* A handler step was taken (the step is not a stuttering step).
Handled == invocations' = invocations + 1

\* The k-th smallest index of the set S of indices.
Kth(S, k) == CHOOSE i \in S : Cardinality({j \in S : j <= i}) = k

\* out is the sequence of the names of the records at the indices S, in
\* batch order.
NamesAt(out, batch, S) ==
  /\ Len(out) = Cardinality(S)
  /\ \A k \in 1..Len(out) : out[k] = batch[Kth(S, k)].name

(***************************************************************************)
(* C1: the first invocation that reaches the idempotency check with a key  *)
(* K passes it and records K; every later invocation that reaches the      *)
(* check with K finds K recorded, whatever other keys came in between;     *)
(* and a key once in processedRequests is never removed.                   *)
(***************************************************************************)
C1_FirstPassesLaterFound ==
  [][ /\ processedRequests \subseteq processedRequests'
      /\ (Handled /\ WellFormed(request'[1])) =>
           LET K == KeyOf(request'[1])
           IN /\ K \in processedRequests'
              /\ K \notin reached =>
                   /\ K \notin processedRequests
                   /\ ~IsAcknowledgment(response'[1])
                   /\ evaluated'[K] = evaluated[K] + 1
              /\ K \in reached =>
                   /\ K \in processedRequests
                   /\ IsAcknowledgment(response'[1])
    ]_vars

\* K was recorded, another key was handled, and K was then found recorded.
C1_Witness ==
  /\ invocations = 3
  /\ processedRequests = {"r1", "a1"}
  /\ KeyOf(request[1]) = "r1"
  /\ IsAcknowledgment(response[1])
  /\ evaluated = [k \in Keys |-> 1]

(***************************************************************************)
(* C2 as stated: whenever a request carries a key with which an earlier    *)
(* request was processed, it gets the 'Request already processed'          *)
(* acknowledgment (status 200) and the queries are not evaluated,          *)
(* whatever batch payload it carries.                                      *)
(***************************************************************************)
C2_AnySecondRequestAcknowledged ==
  [][ (Handled /\ HasBatch(request'[1]) /\ KeyOf(request'[1]) \in reached) =>
        /\ IsAcknowledgment(response'[1])
        /\ evaluated' = evaluated
    ]_vars

(***************************************************************************)
(* C2 amended: whenever a request that passes validation carries a key     *)
(* that an earlier request passing validation carried, it gets the         *)
(* acknowledgment (status 200) and the queries are not evaluated,          *)
(* whatever batch it carries.                                              *)
(***************************************************************************)
C2_ValidatedSecondRequestAcknowledged ==
  [][ (Handled /\ WellFormed(request'[1]) /\ KeyOf(request'[1]) \in reached) =>
        /\ IsAcknowledgment(response'[1])
        /\ results' = <<>>
        /\ evaluated' = evaluated
        /\ processedBatch' = processedBatch
    ]_vars

\* The second request with the key carried another batch than the first.
C2_Witness ==
  /\ invocations = 2
  /\ IsAcknowledgment(response[1])
  /\ WellFormed(request[1])
  /\ processedBatch[KeyOf(request[1])] # <<>>
  /\ processedBatch[KeyOf(request[1])][1] # BatchOf(request[1])

C5_InvalidRequestRejectedUntouched ==
  [][ /\ (Handled /\ ~WellFormed(request'[1])) =>
           /\ response'[1].statusCode = 400
           /\ results' = <<>>
           /\ processedRequests' = processedRequests
           /\ reached' = reached
           /\ evaluated' = evaluated
      /\ (Handled /\ WellFormed(request'[1])
            /\ KeyOf(request'[1]) \in carried \ reached) =>
           /\ IsSuccess(response'[1])
           /\ response'[1].body = results'[1]
           /\ KeyOf(request'[1]) \in processedRequests'
    ]_vars

\* The key was carried by a rejected request first; the valid request with
\* the same key was evaluated.
C5_Witness ==
  /\ invocations = 2
  /\ carried = {"r1"}
  /\ WellFormed(request[1])
  /\ IsSuccess(response[1])
  /\ completed["r1"] = 1

(***************************************************************************)
(* C6 as stated: a batch holding a record without Subject.maths is         *)
(* answered, when its key is new, with results in which that record        *)
(* appears in studentNames and scienceMarks along with the other records.  *)
(***************************************************************************)
C6_MissingMathsTolerated ==
  (request # <<>> /\ LacksMaths(request[1])
     /\ \A i \in 1..Len(BatchOf(request[1])) :
          BatchOf(request[1])[i].Subject.science \in 0..100
     /\ ~IsAcknowledgment(response[1])) =>
    /\ results # <<>>
    /\ results[1].studentNames =
         [i \in 1..Len(BatchOf(request[1])) |-> BatchOf(request[1])[i].name]
    /\ results[1].scienceMarks =
         [i \in 1..Len(BatchOf(request[1])) |-> BatchOf(request[1])[i].Subject.science]

(***************************************************************************)
(* C6 amended: a request whose batch holds a record without Subject.maths  *)
(* fails InputSchema: the response is the 400 'Invalid input' error, no    *)
(* query result is produced for any record of the batch, and               *)
(* processedRequests is unchanged.                                         *)
(***************************************************************************)
C6_MissingMathsRejected ==
  [][ (Handled /\ LacksMaths(request'[1])) =>
        /\ response'[1].statusCode = 400
        /\ response'[1].body.error = "Invalid input"
        /\ results' = <<>>
        /\ evaluated' = evaluated
        /\ processedRequests' = processedRequests
    ]_vars

\* A batch of one record of the schema and one record without Subject.maths
\* was rejected.
C6_Witness ==
  /\ request # <<>>
  /\ LacksMaths(request[1])
  /\ Len(BatchOf(request[1])) = 2
  /\ BatchOf(request[1])[1] \in WellFormedStudents
  /\ response[1].statusCode = 400
  /\ results = <<>>

(***************************************************************************)
(* C7: a record's name is in scienceAbove80 iff its Subject.science is     *)
(* strictly greater than 80 (a record with science 80 is left out), and    *)
(* the names keep their batch order.                                       *)
(***************************************************************************)
C7_ScienceAbove80 ==
  results # <<>> =>
    NamesAt(results[1].scienceAbove80, students,
            {i \in 1..Len(students) : students[i].Subject.science > 80})

\* A record with science 80 was left out and the one with 81 after it kept.
C7_Witness ==
  /\ results # <<>>
  /\ Len(students) = 2
  /\ students[1].Subject.science = 80 /\ students[1].name = "A"
  /\ students[2].Subject.science = 81 /\ students[2].name = "B"
  /\ results[1].scienceAbove80 = <<"B">>

(***************************************************************************)
(* C8: a record's name is in passedLowAttendance iff its Subject.result    *)
(* is "pass" and its Attendance is below 50 (attendance 50 is left out).   *)
(***************************************************************************)
C8_PassedLowAttendance ==
  results # <<>> =>
    NamesAt(results[1].passedLowAttendance, students,
            {i \in 1..Len(students) :
               students[i].Subject.result = "pass" /\ students[i].Attendance < 50})

\* A passed record with attendance 50 was left out, one with 49 kept.
C8_Witness ==
  /\ results # <<>>
  /\ Len(students) = 2
  /\ students[1].Subject.result = "pass" /\ students[1].Attendance = 50
  /\ students[2].Subject.result = "pass" /\ students[2].Attendance = 49
  /\ results[1].passedLowAttendance = <<students[2].name>>

(***************************************************************************)
(* C9: a record's name is in perfectScore iff its Subject.science is 100   *)
(* or its Subject.maths is 100, whatever its Subject.result.               *)
(***************************************************************************)
C9_PerfectScore ==
  results # <<>> =>
    NamesAt(results[1].perfectScore, students,
            {i \in 1..Len(students) :
               students[i].Subject.science = 100 \/ students[i].Subject.maths = 100})

\* A failed record with science 100 alone and one with maths 100 alone
\* were both kept.
C9_Witness ==
  /\ results # <<>>
  /\ Len(students) = 2
  /\ students[1].Subject = [science |-> 100, maths |-> 50, result |-> "fail"]
  /\ students[2].Subject = [science |-> 81, maths |-> 100, result |-> "pass"]
  /\ Len(results[1].perfectScore) = 2

(***************************************************************************)
(* C10: for a batch of n records (n = 0 included), studentNames,           *)
(* scienceMarks and nameAndResult each hold exactly n entries, the i-th    *)
(* computed from the i-th record: name; Subject.science; {Name, Result}.   *)
(***************************************************************************)
C10_WildcardProjections ==
  results # <<>> =>
    /\ results[1].studentNames = [i \in 1..Len(students) |-> students[i].name]
    /\ results[1].scienceMarks =
         [i \in 1..Len(students) |-> students[i].Subject.science]
    /\ results[1].nameAndResult =
         [i \in 1..Len(students) |->
            [Name |-> students[i].name, Result |-> students[i].Subject.result]]

\* Two different records were projected in batch order.
C10_Witness ==
  /\ results # <<>>
  /\ Len(students) = 2
  /\ students[1].name = "B" /\ students[2].name = "A"
  /\ students[1].Subject.science = 100 /\ students[2].Subject.science = 80
  /\ results[1].studentNames = <<"B", "A">>
  /\ results[1].scienceMarks = <<100, 80>>

====
